---- MODULE Spec2Model ----
(***************************************************************************)
(* A model of src/parser.py: the Scanner (characters to tokens), the       *)
(* recursive-descent Parser (tokens to a value tree) and the driver        *)
(* parse_json that runs one after the other.                               *)
(*                                                                         *)
(* A text is a sequence of one-character strings.  Cursors are 0-based, as *)
(* in the source; Python's s[i] is s[i + 1] here.  The recursion of        *)
(* parse_value / parse_object / parse_array is the explicit call stack     *)
(* `stack`, one frame per active parse_object or parse_array call.         *)
(***************************************************************************)
EXTENDS Integers, Sequences, FiniteSets, TLC

VARIABLES
  origin,    \* the document the input text was written from, if any
  source,    \* Scanner.source: the input text
  scurrent,  \* Scanner.current
  tokens,    \* the local list `tokens` of Scanner.scan_tokens
  ptokens,   \* Parser.tokens (empty until the Parser is constructed)
  pcurrent,  \* Parser.current
  stack,     \* active parse_object / parse_array calls, innermost last
  retval,    \* the value a parse_* call has just returned to its caller
  result,    \* what parse_json returned
  error,     \* the exception that left parse_json
  readMax,   \* highest index of Parser.tokens read (or tried) so far, -1 if none
  pc         \* the routine about to run

vars == <<origin, source, scurrent, tokens, ptokens, pcurrent, stack, retval, result,
          error, readMax, pc>>

----------------------------------------------------------------------------
(* Character classes used by Scanner.scan_tokens.                          *)

WhitespaceChars == {" ", "\t", "\n", "\r"}

PunctChars == {"{", "}", "[", "]", ",", ":"}

DigitChars == <<"0", "1", "2", "3", "4", "5", "6", "7", "8", "9">>

AlphaChars ==
  {"a", "b", "c", "d", "e", "f", "g", "h", "i", "j", "k", "l", "m", "n",
   "o", "p", "q", "r", "s", "t", "u", "v", "w", "x", "y", "z"}

IsDigit(c) == \E i \in 1..Len(DigitChars) : DigitChars[i] = c

IsAlpha(c) == c \in AlphaChars

DigitVal(c) == (CHOOSE i \in 1..Len(DigitChars) : DigitChars[i] = c) - 1

Max(a, b) == IF a >= b THEN a ELSE b

----------------------------------------------------------------------------
(* JSON values (JsonValue), tagged by their Python type.                   *)

VNull == [k |-> "null"]

VBool(b) == [k |-> "bool", b |-> b]

VInt(i) == [k |-> "int", i |-> i]

\* a float m / 10^e, kept normal: e = 0 or m not a multiple of 10
VFloat(m, e) == [k |-> "float", m |-> m, e |-> e]

VStr(s) == [k |-> "str", s |-> s]

VArr(items) == [k |-> "arr", items |-> items]

\* a dict: its entries in insertion order, keys unique
VObj(members) == [k |-> "obj", members |-> members]

NoValue == [k |-> "none"]

NoError == [exc |-> "none", by |-> "none", msg |-> ""]

Token(type, value) == [type |-> type, value |-> value]

NoToken == Token("<none>", NoValue)

\* a dict store that keeps the value already held for the key
DictSetMutFirstWins(members, key, val) ==
  IF \E i \in 1..Len(members) : members[i].key = key
  THEN members
  ELSE Append(members, [key |-> key, val |-> val])

\* obj[key] = val on a dict: overwrite in place, or insert at the end
DictSet(members, key, val) ==
  IF \E i \in 1..Len(members) : members[i].key = key
  THEN [i \in 1..Len(members) |->
          IF members[i].key = key THEN [key |-> key, val |-> val] ELSE members[i]]
  ELSE Append(members, [key |-> key, val |-> val])

----------------------------------------------------------------------------
(* Python's int() and float() on the text scan_number captured.            *)

RECURSIVE DigitsVal(_)
DigitsVal(ds) ==
  IF ds = <<>> THEN 0
  ELSE 10 * DigitsVal(SubSeq(ds, 1, Len(ds) - 1)) + DigitVal(ds[Len(ds)])

HasSign(text) == text # <<>> /\ text[1] \in {"-", "+"}

Unsigned(text) == IF HasSign(text) THEN Tail(text) ELSE text

SignOf(text) == IF text # <<>> /\ text[1] = "-" THEN -1 ELSE 1

AllDigits(ds) == \A i \in 1..Len(ds) : IsDigit(ds[i])

\* int() that drops the sign
py_intMutNoSign(text) ==
  LET body == Unsigned(text)
  IN  IF body # <<>> /\ AllDigits(body)
      THEN [ok |-> TRUE, value |-> VInt(DigitsVal(body)), msg |-> ""]
      ELSE [ok |-> FALSE, value |-> NoValue, msg |-> "invalid literal for int()"]

py_int(text) ==
  LET body == Unsigned(text)
  IN  IF body # <<>> /\ AllDigits(body)
      THEN [ok |-> TRUE, value |-> VInt(SignOf(text) * DigitsVal(body)), msg |-> ""]
      ELSE [ok |-> FALSE, value |-> NoValue, msg |-> "invalid literal for int()"]

RECURSIVE Normal(_, _)
Normal(m, e) ==
  IF e > 0 /\ m % 10 = 0 THEN Normal(m \div 10, e - 1) ELSE VFloat(m, e)

py_float(text) ==
  LET body == Unsigned(text)
      dots == {i \in 1..Len(body) : body[i] = "."}
      dot  == CHOOSE i \in dots : TRUE
      ip   == SubSeq(body, 1, dot - 1)
      fp   == SubSeq(body, dot + 1, Len(body))
      bad  == [ok |-> FALSE, value |-> NoValue,
               msg |-> "could not convert string to float"]
  IN  IF Cardinality(dots) = 0
      THEN IF body # <<>> /\ AllDigits(body)
           THEN [ok |-> TRUE, value |-> VFloat(SignOf(text) * DigitsVal(body), 0),
                 msg |-> ""]
           ELSE bad
      ELSE IF /\ Cardinality(dots) = 1
              /\ AllDigits(ip) /\ AllDigits(fp)
              /\ Len(ip) + Len(fp) > 0
           THEN [ok |-> TRUE,
                 value |-> Normal(SignOf(text) * DigitsVal(ip \o fp), Len(fp)),
                 msg |-> ""]
           ELSE bad

----------------------------------------------------------------------------
(* Scanner                                                                 *)

is_at_end(src, cur) == cur >= Len(src)

\* Scanner.peek: the next character, "" at the end
speek(src, cur) == IF is_at_end(src, cur) THEN "" ELSE src[cur + 1]

\* Python's src[a:b]
Slice(src, a, b) == SubSeq(src, a + 1, b)

ScanOk(toks, cur) == [ok |-> TRUE, toks |-> toks, cur |-> cur, msg |-> ""]

ScanErr(msg, cur) == [ok |-> FALSE, toks |-> <<>>, cur |-> cur, msg |-> msg]

\* the while loop of scan_string: the cursor where it stops
RECURSIVE StringLoop(_, _)
StringLoop(src, cur) ==
  IF speek(src, cur) # "\"" /\ ~is_at_end(src, cur)
  THEN StringLoop(src, cur + 1)
  ELSE cur

\* a scan_string whose slice runs up to the cursor, closing quote included
scan_stringMutKeepQuote(src, cur) ==
  LET start == cur
      stop  == StringLoop(src, cur)
  IN  IF is_at_end(src, stop)
      THEN ScanErr("Unterminated string", stop)
      ELSE ScanOk(<<Token("STRING", VStr(Slice(src, start, stop + 1)))>>, stop + 1)

scan_string(src, cur) ==
  LET start == cur
      stop  == StringLoop(src, cur)
  IN  IF is_at_end(src, stop)
      THEN ScanErr("Unterminated string", stop)
      ELSE ScanOk(<<Token("STRING", VStr(Slice(src, start, (stop + 1) - 1)))>>,
                  stop + 1)

\* the while loop of scan_number: the captured text and where it stops
RECURSIVE NumberLoop(_, _, _)
NumberLoop(src, cur, number) ==
  IF IsDigit(speek(src, cur)) \/ speek(src, cur) = "."
  THEN NumberLoop(src, cur + 1, Append(number, src[cur + 1]))
  ELSE [number |-> number, cur |-> cur]

HasDot(text) == \E i \in 1..Len(text) : text[i] = "."

\* a scan_number that always converts with int()
scan_numberMutAlwaysInt(src, first_char, cur) ==
  LET r == NumberLoop(src, cur, <<first_char>>)
      v == py_int(r.number)
  IN  IF v.ok THEN ScanOk(<<Token("NUMBER", v.value)>>, r.cur)
      ELSE ScanErr(v.msg, r.cur)

scan_number(src, first_char, cur) ==
  LET r == NumberLoop(src, cur, <<first_char>>)
      v == IF HasDot(r.number) THEN py_float(r.number) ELSE py_int(r.number)
  IN  IF v.ok THEN ScanOk(<<Token("NUMBER", v.value)>>, r.cur)
      ELSE ScanErr(v.msg, r.cur)

RECURSIVE KeywordLoop(_, _, _)
KeywordLoop(src, cur, word) ==
  IF IsAlpha(speek(src, cur))
  THEN KeywordLoop(src, cur + 1, Append(word, src[cur + 1]))
  ELSE [word |-> word, cur |-> cur]

scan_keyword(src, first_char, cur) ==
  LET r == KeywordLoop(src, cur, <<first_char>>)
  IN  IF r.word = <<"t", "r", "u", "e">>
      THEN ScanOk(<<Token("BOOLEAN", VBool(TRUE))>>, r.cur)
      ELSE IF r.word = <<"f", "a", "l", "s", "e">>
      THEN ScanOk(<<Token("BOOLEAN", VBool(FALSE))>>, r.cur)
      ELSE IF r.word = <<"n", "u", "l", "l">>
      THEN ScanOk(<<Token("NULL", VNull)>>, r.cur)
      ELSE ScanErr("Unexpected keyword", r.cur)

\* one iteration of the while loop of scan_tokens, entered with the cursor
\* at cur (not at the end): char = advance(), then the if/elif chain
scan_iteration(src, cur) ==
  LET char == src[cur + 1]
      next == cur + 1
  IN  IF char \in WhitespaceChars THEN ScanOk(<<>>, next)
      ELSE IF char \in PunctChars THEN ScanOk(<<Token(char, VStr(<<char>>))>>, next)
      ELSE IF char = "\"" THEN scan_string(src, next)
      ELSE IF IsDigit(char) \/ char = "-" THEN scan_number(src, char, next)
      ELSE IF IsAlpha(char) THEN scan_keyword(src, char, next)
      ELSE ScanErr("Unexpected character", next)

----------------------------------------------------------------------------
(* Parser primitives.  Reading tokens[cur] past the end of the list is     *)
(* Python's IndexError.                                                    *)

ValueTypes == {"STRING", "NUMBER", "BOOLEAN", "NULL"}

ReadOk(tok, cur) == [exc |-> "none", msg |-> "", tok |-> tok, cur |-> cur]

ReadErr(exc, msg, cur) == [exc |-> exc, msg |-> msg, tok |-> NoToken, cur |-> cur]

OutOfRange(cur) == ReadErr("IndexError", "list index out of range", cur)

\* Parser.peek
peek(toks, cur) ==
  IF cur < Len(toks) THEN ReadOk(toks[cur + 1], cur) ELSE OutOfRange(cur)

\* an advance that returns a comma without moving past it
advanceMutStuck(toks, cur) ==
  IF cur < Len(toks)
  THEN ReadOk(toks[cur + 1], IF toks[cur + 1].type = "," THEN cur ELSE cur + 1)
  ELSE OutOfRange(cur)

\* Parser.advance
advance(toks, cur) ==
  IF cur < Len(toks) THEN ReadOk(toks[cur + 1], cur + 1) ELSE OutOfRange(cur)

\* Parser.expect
expect(toks, cur, token_type, error_message) ==
  LET p == peek(toks, cur)
  IN  IF p.exc # "none" THEN p
      ELSE IF p.tok.type # token_type THEN ReadErr("ValueError", error_message, cur)
      ELSE advance(toks, cur)

Frame(fn, acc, key, iter) == [fn |-> fn, acc |-> acc, key |-> key, iter |-> iter]

Top == stack[Len(stack)]

Pop == SubSeq(stack, 1, Len(stack) - 1)

----------------------------------------------------------------------------
(* The state machine.                                                      *)

(* The inputs the model is run on.  A document is a value tree as it is    *)
(* written: an object's member list may repeat a key.  Lexemes(d) writes a *)
(* document as its lexemes, and a text lays the lexemes out with or        *)
(* without whitespace around them.                                         *)

RECURSIVE NatText(_)
NatText(n) ==
  IF n < 10 THEN <<DigitChars[n + 1]>>
  ELSE NatText(n \div 10) \o <<DigitChars[(n % 10) + 1]>>

IntText(i) == IF i < 0 THEN <<"-">> \o NatText(-i) ELSE NatText(i)

Quoted(s) == <<"\"">> \o s \o <<"\"">>

RECURSIVE Lexemes(_)
RECURSIVE ItemLexemes(_)
RECURSIVE MemberLexemes(_)

ItemLexemes(items) ==
  IF items = <<>> THEN <<>>
  ELSE IF Len(items) = 1 THEN Lexemes(items[1])
  ELSE Lexemes(items[1]) \o <<<<",">>>> \o ItemLexemes(Tail(items))

MemberLexemes(ms) ==
  IF ms = <<>> THEN <<>>
  ELSE LET m == <<Quoted(ms[1].key), <<":">>>> \o Lexemes(ms[1].val)
       IN  IF Len(ms) = 1 THEN m
           ELSE m \o <<<<",">>>> \o MemberLexemes(Tail(ms))

Lexemes(d) ==
  IF d.k = "null" THEN <<<<"n", "u", "l", "l">>>>
  ELSE IF d.k = "bool"
  THEN IF d.b THEN <<<<"t", "r", "u", "e">>>> ELSE <<<<"f", "a", "l", "s", "e">>>>
  ELSE IF d.k = "int" THEN <<IntText(d.i)>>
  ELSE IF d.k = "str" THEN <<Quoted(d.s)>>
  ELSE IF d.k = "arr" THEN <<<<"[">>>> \o ItemLexemes(d.items) \o <<<<"]">>>>
  ELSE <<<<"{">>>> \o MemberLexemes(d.members) \o <<<<"}">>>>

RECURSIVE Flatten(_)
Flatten(lexemes) ==
  IF lexemes = <<>> THEN <<>> ELSE lexemes[1] \o Flatten(Tail(lexemes))

WhitespaceSeq == <<" ", "\t", "\n", "\r">>

\* one whitespace character before every lexeme and one after the last,
\* taking the four whitespace characters in turn
RECURSIVE SpacedFrom(_, _)
SpacedFrom(lexemes, i) ==
  LET ws == <<WhitespaceSeq[(i % 4) + 1]>>
  IN  IF lexemes = <<>> THEN ws
      ELSE ws \o lexemes[1] \o SpacedFrom(Tail(lexemes), i + 1)

Compact(d) == Flatten(Lexemes(d))

Spaced(d) == SpacedFrom(Lexemes(d), 0)

TextsOf(d) == {Compact(d), Spaced(d)}

\* the documents with exactly n nodes, and the lists of documents with n
\* nodes in all
RECURSIVE DocsOfSize(_, _, _)
RECURSIVE ListsOfSize(_, _, _)

ListsOfSize(leaves, keys, n) ==
  IF n = 0 THEN {<<>>}
  ELSE UNION {{<<d>> \o l : d \in DocsOfSize(leaves, keys, j),
                            l \in ListsOfSize(leaves, keys, n - j)} : j \in 1..n}

Keyed(keys, l) ==
  {[i \in 1..Len(l) |-> [key |-> ks[i], val |-> l[i]]] : ks \in [1..Len(l) -> keys]}

DocsOfSize(leaves, keys, n) ==
  IF n = 0 THEN {}
  ELSE LET lists == ListsOfSize(leaves, keys, n - 1)
       IN  (IF n = 1 THEN leaves ELSE {})
             \cup {VArr(l) : l \in lists}
             \cup UNION {{VObj(ms) : ms \in Keyed(keys, l)} : l \in lists}

DocsUpTo(leaves, keys, n) == UNION {DocsOfSize(leaves, keys, j) : j \in 1..n}

(* Bounds of the input families.                                           *)

\* nodes of a document (containers and leaves), which also bounds nesting
MaxNodes == 3

\* nodes of a document before one edit is applied to it
NearNodes == 2

\* lexemes written after a complete document
MaxTrail == 1

\* pieces of a text put together from the scanner's alphabet
MaxPieces == 4

Keys == {<<"a">>, <<"b">>}

NestedLeaves == {VBool(TRUE), VInt(-5), VStr(<<"a">>)}

Leaves ==
  NestedLeaves \cup
  {VNull, VBool(FALSE), VInt(0), VInt(42), VStr(<<>>), VStr(<<"[", " ", "1", ",">>)}

\* the documents: every tree of at most MaxNodes nodes over NestedLeaves,
\* and every leaf alone, in an array and in an object
Docs ==
  DocsUpTo(NestedLeaves, Keys, MaxNodes)
    \cup Leaves
    \cup {VArr(<<l>>) : l \in Leaves}
    \cup {VObj(<<[key |-> <<"a">>, val |-> l]>>) : l \in Leaves}

NearDocs == DocsUpTo({VInt(1), VStr(<<"a">>)}, {<<"a">>}, NearNodes)

NoDoc == NoValue

Input(d, text) == [origin |-> d, source |-> text]

DocInputs == UNION {{Input(d, t) : t \in TextsOf(d)} : d \in Docs}

\* a document's lexeme list and its one-edit neighbours
EditLexemes ==
  {<<"[">>, <<"]">>, <<"{">>, <<"}">>, <<",">>, <<":">>, <<"1">>,
   <<"\"", "a", "\"">>, <<" ">>, <<"#">>}

Prefixes(lx) == {SubSeq(lx, 1, i) : i \in 0..(Len(lx) - 1)}

Deletes(lx) ==
  {SubSeq(lx, 1, i - 1) \o SubSeq(lx, i + 1, Len(lx)) : i \in 1..Len(lx)}

Replaces(lx) ==
  {[lx EXCEPT ![i] = e] : i \in 1..Len(lx), e \in EditLexemes}

Inserts(lx) ==
  {SubSeq(lx, 1, i - 1) \o <<e>> \o SubSeq(lx, i, Len(lx)) :
     i \in 1..(Len(lx) + 1), e \in EditLexemes}

Edits(lx) ==
  {lx} \cup Prefixes(lx) \cup Deletes(lx) \cup Replaces(lx) \cup Inserts(lx)

NearInputs ==
  {Input(NoDoc, Flatten(lx)) : lx \in UNION {Edits(Lexemes(d)) : d \in NearDocs}}

\* a complete document followed by further lexemes
TrailLexemes ==
  {<<"]">>, <<"}">>, <<",">>, <<":">>, <<"[">>, <<"{">>, <<"1">>, <<" ">>,
   <<" ", "2">>, <<"\"", "a", "\"">>, <<"\n", "n", "u", "l", "l">>}

RECURSIVE SeqsUpTo(_, _)
SeqsUpTo(S, n) ==
  IF n = 0 THEN {<<>>}
  ELSE LET shorter == SeqsUpTo(S, n - 1)
       IN  shorter \cup {Append(q, x) : q \in shorter, x \in S}

Trails == {Flatten(q) : q \in SeqsUpTo(TrailLexemes, MaxTrail)} \ {<<>>}

TrailInputs == {Input(d, Compact(d) \o t) : d \in NearDocs, t \in Trails}

\* texts put together blindly from the characters the scanner tells apart
Pieces == {"\"", "a", "\\", "1", "-", ".", " ", "]", "#"}

PieceInputs == {Input(NoDoc, q) : q \in SeqsUpTo(Pieces, MaxPieces)}

\* the inputs the specification and the code's own example quote
Examples ==
  {<<"[", "1", ",", "2", ",", "]">>,
   <<"{", "\"", "a", "\"", ":", "1", ",", "}">>,
   <<"{", "\"", "a", "\"", ":", "1", ",", "\"", "a", "\"", ":", "2", "}">>,
   <<"\"", "a", "b", "c">>,
   <<"{", "}">>,
   <<"[", "]">>,
   <<"3", ".", "1", "4">>,
   <<"4", "2">>,
   <<"-", "5">>,
   <<"#">>,
   <<"1", " ", "2">>,
   <<"[", "]", " ", "]">>,
   <<"{", "\"", "a", "\"", ":", "1", "}", " ", ",">>,
   <<"]", " ", "#">>,
   <<"[", "1", " ", "2", "]", " ", "@">>,
   <<"[", "1", " ", "2", "]">>,
   <<"{", "\"", "a", "\"", ":", "1", " ", "\"", "b", "\"", ":", "2", "}">>,
   <<"[", "1", "}">>,
   <<"{", "\"", "a", "\"", ":", "1", "]">>,
   <<"[", "1">>,
   <<>>,
   <<"[">>,
   <<"{">>,
   <<"{", "\"", "a", "\"">>,
   <<"{", "\"", "a", "\"", ":">>,
   <<"[", "1", ",">>,
   <<"{", "\"", "n", "a", "m", "e", "\"", ":", "\"", "A", "l", "i", "c", "e",
     "\"", ",", "\"", "a", "g", "e", "\"", ":", "2", "5", ",", "\"", "i",
     "s", "S", "t", "u", "d", "e", "n", "t", "\"", ":", "f", "a", "l",
     "s", "e", ",", "\"", "g", "r", "a", "d", "e", "s", "\"", ":", "[",
     "9", "0", ",", "8", "5", ",", "8", "8", "]", ",", "\"", "a", "d",
     "d", "r", "e", "s", "s", "\"", ":", "{", "\"", "c", "i", "t", "y",
     "\"", ":", "\"", "N", "e", "w", " ", "Y", "o", "r", "k", "\"", ",",
     "\"", "z", "i", "p", "\"", ":", "\"", "1", "0", "0", "0", "1", "\"",
     "}", "}">>}

ExampleInputs == {Input(NoDoc, t) : t \in Examples}

InitWith(S) ==
  /\ \E inp \in S : origin = inp.origin /\ source = inp.source
  /\ scurrent = 0
  /\ tokens = <<>>
  /\ ptokens = <<>>
  /\ pcurrent = 0
  /\ stack = <<>>
  /\ retval = NoValue
  /\ result = NoValue
  /\ error = NoError
  /\ readMax = -1
  /\ pc = "scan_tokens"

Init == InitWith(PieceInputs \cup ExampleInputs)

InitDocs == InitWith(DocInputs)

InitNear == InitWith(NearInputs)

InitTrail == InitWith(TrailInputs)

InitBroad == InitWith(PieceInputs \cup ExampleInputs \cup NearInputs)


\* an exception leaves parse_json: nothing is returned
Raise(by, exc, msg) ==
  /\ pc' = "raised"
  /\ error' = [exc |-> exc, by |-> by, msg |-> msg]

\* a scan that, on a lexical error, returns the tokens it has so far
ScanFailMutLenient(r) ==
  /\ tokens' = Append(tokens, Token("EOF", VNull))
  /\ ptokens' = tokens'
  /\ pcurrent' = 0
  /\ scurrent' = r.cur
  /\ pc' = "parse_value"
  /\ UNCHANGED <<origin, source, stack, retval, result, error, readMax>>

\* what a failed scan leaves behind: the exception propagates through
\* parse_json, no Parser is constructed
ScanFail(r) ==
  /\ Raise("Scanner", "ValueError", r.msg)
  /\ scurrent' = r.cur
  /\ UNCHANGED <<origin, source, tokens, ptokens, pcurrent, stack, retval, result, readMax>>

\* scan_tokens, one iteration of its loop
ScanChar ==
  /\ pc = "scan_tokens"
  /\ ~is_at_end(source, scurrent)
  /\ LET r == scan_iteration(source, scurrent)
     IN  IF r.ok
         THEN /\ tokens' = tokens \o r.toks
              /\ scurrent' = r.cur
              /\ UNCHANGED <<origin, source, ptokens, pcurrent, stack, retval, result,
                             error, readMax, pc>>
         ELSE ScanFail(r)

\* scan_tokens leaves its loop, appends EOF and returns; parse_json
\* constructs the Parser and calls parse(), which calls parse_value()
ScanEOF ==
  /\ pc = "scan_tokens"
  /\ is_at_end(source, scurrent)
  /\ tokens' = Append(tokens, Token("EOF", VNull))
  /\ ptokens' = tokens'
  /\ pcurrent' = 0
  /\ pc' = "parse_value"
  /\ UNCHANGED <<origin, source, scurrent, stack, retval, result, error, readMax>>

\* a dispatch that takes the end-of-input token for a value
value_dispatchMutEOF(token) ==
  IF token.type \in ValueTypes \cup {"EOF"} THEN "return"
  ELSE IF token.type = "{" THEN "parse_object"
  ELSE IF token.type = "[" THEN "parse_array"
  ELSE "raise"

\* the dispatch of parse_value on the token it consumed
value_dispatch(token) ==
  IF token.type \in ValueTypes THEN "return"
  ELSE IF token.type = "{" THEN "parse_object"
  ELSE IF token.type = "[" THEN "parse_array"
  ELSE "raise"

\* parse_value up to its return or its call of parse_object / parse_array
ParseValue ==
  /\ pc = "parse_value"
  /\ LET a == advance(ptokens, pcurrent)
         d == value_dispatch(a.tok)
     IN  /\ readMax' = Max(readMax, pcurrent)
         /\ pcurrent' = a.cur
         /\ IF a.exc # "none"
            THEN /\ Raise("Parser", a.exc, a.msg)
                 /\ UNCHANGED <<stack, retval>>
            ELSE IF d = "return"
            THEN /\ retval' = a.tok.value
                 /\ pc' = "return"
                 /\ UNCHANGED <<stack, error>>
            ELSE IF d = "raise"
            THEN /\ Raise("Parser", "ValueError", "Unexpected token")
                 /\ UNCHANGED <<stack, retval>>
            ELSE /\ stack' = Append(stack, Frame(d, <<>>, <<>>, a.cur))
                 /\ pc' = d
                 /\ UNCHANGED <<retval, error>>
  /\ UNCHANGED <<origin, source, scurrent, tokens, ptokens, result>>

\* a separator test that lets a value follow a value without a comma
after_elementMutLenient(tok) ==
  IF tok.type \in {","} \cup ValueTypes THEN "continue" ELSE "break"

\* what the loop of parse_object does once parse_value has returned
\* (the test at line 124): "continue" after a comma, else "break"
after_element(tok) == IF tok.type = "," THEN "continue" ELSE "break"

\* parse_object at the head of its while loop: either the key and the colon
\* of the next member, up to the call of parse_value, or, on '}', the
\* expect after the loop and the return
ParseObject ==
  /\ pc = "parse_object"
  /\ LET p == peek(ptokens, pcurrent)
     IN  IF p.exc # "none"
         THEN /\ Raise("Parser", p.exc, p.msg)
              /\ readMax' = Max(readMax, pcurrent)
              /\ UNCHANGED <<pcurrent, stack, retval>>
         ELSE IF p.tok.type # "}"
         THEN LET key   == expect(ptokens, pcurrent, "STRING", "Expected string key")
                  colon == expect(ptokens, key.cur, ":", "Expected ':' after key")
              IN  IF key.exc # "none"
                  THEN /\ Raise("Parser", key.exc, key.msg)
                       /\ readMax' = Max(readMax, pcurrent)
                       /\ UNCHANGED <<pcurrent, stack, retval>>
                  ELSE IF colon.exc # "none"
                  THEN /\ Raise("Parser", colon.exc, colon.msg)
                       /\ readMax' = Max(readMax, key.cur)
                       /\ pcurrent' = key.cur
                       /\ UNCHANGED <<stack, retval>>
                  ELSE /\ stack' = Append(Pop, [Top EXCEPT !.key = key.tok.value.s,
                                                           !.iter = pcurrent])
                       /\ readMax' = Max(readMax, key.cur)
                       /\ pcurrent' = colon.cur
                       /\ pc' = "parse_value"
                       /\ UNCHANGED <<retval, error>>
         ELSE LET e == expect(ptokens, pcurrent, "}", "Expected '}' at end of object")
              IN  /\ readMax' = Max(readMax, pcurrent)
                  /\ pcurrent' = e.cur
                  /\ retval' = VObj(Top.acc)
                  /\ stack' = Pop
                  /\ pc' = "return"
                  /\ UNCHANGED error
  /\ UNCHANGED <<origin, source, scurrent, tokens, ptokens, result>>

\* parse_array at the head of its while loop: either the call of
\* parse_value for the next element, or, on ']', the expect and the return
ParseArray ==
  /\ pc = "parse_array"
  /\ LET p == peek(ptokens, pcurrent)
     IN  /\ readMax' = Max(readMax, pcurrent)
         /\ IF p.exc # "none"
            THEN /\ Raise("Parser", p.exc, p.msg)
                 /\ UNCHANGED <<pcurrent, stack, retval>>
            ELSE IF p.tok.type # "]"
            THEN /\ stack' = Append(Pop, [Top EXCEPT !.iter = pcurrent])
                 /\ pc' = "parse_value"
                 /\ UNCHANGED <<pcurrent, retval, error>>
            ELSE LET e == expect(ptokens, pcurrent, "]", "Expected ']' at end of array")
                 IN  /\ pcurrent' = e.cur
                     /\ retval' = VArr(Top.acc)
                     /\ stack' = Pop
                     /\ pc' = "return"
                     /\ UNCHANGED error
  /\ UNCHANGED <<origin, source, scurrent, tokens, ptokens, result>>

\* the rest of a loop iteration, shared by parse_object and parse_array:
\* acc is the container with the returned value stored; a comma continues
\* the loop, anything else breaks out of it to the expect of the closer
Resume(acc, closer, message, make) ==
  LET p == peek(ptokens, pcurrent)
  IN  /\ readMax' = Max(readMax, pcurrent)
      /\ IF p.exc # "none"
         THEN /\ Raise("Parser", p.exc, p.msg)
              /\ UNCHANGED <<pcurrent, stack, retval>>
         ELSE IF after_element(p.tok) = "continue"
         THEN /\ pcurrent' = advance(ptokens, pcurrent).cur
              /\ stack' = Append(Pop, [Top EXCEPT !.acc = acc])
              /\ pc' = Top.fn
              /\ UNCHANGED <<retval, error>>
         ELSE LET e == expect(ptokens, pcurrent, closer, message)
              IN  IF e.exc # "none"
                  THEN /\ Raise("Parser", e.exc, e.msg)
                       /\ UNCHANGED <<pcurrent, stack, retval>>
                  ELSE /\ pcurrent' = e.cur
                       /\ retval' = make
                       /\ stack' = Pop
                       /\ pc' = "return"
                       /\ UNCHANGED error

\* parse_value has returned into parse_object (lines 123-129)
ObjectResume ==
  /\ pc = "return"
  /\ stack # <<>>
  /\ Top.fn = "parse_object"
  /\ LET obj == DictSet(Top.acc, Top.key, retval)
     IN  Resume(obj, "}", "Expected '}' at end of object", VObj(obj))
  /\ UNCHANGED <<origin, source, scurrent, tokens, ptokens, result>>

\* parse_value has returned into parse_array (lines 135-141)
ArrayResume ==
  /\ pc = "return"
  /\ stack # <<>>
  /\ Top.fn = "parse_array"
  /\ LET arr == Append(Top.acc, retval)
     IN  Resume(arr, "]", "Expected ']' at end of array", VArr(arr))
  /\ UNCHANGED <<origin, source, scurrent, tokens, ptokens, result>>

\* a parse() that requires the end of the input after the value
ParseReturnMutStrict ==
  /\ pc = "return"
  /\ stack = <<>>
  /\ LET e == expect(ptokens, pcurrent, "EOF", "Expected end of input")
     IN  /\ readMax' = Max(readMax, pcurrent)
         /\ pcurrent' = e.cur
         /\ IF e.exc # "none"
            THEN /\ Raise("Parser", e.exc, e.msg)
                 /\ UNCHANGED result
            ELSE /\ result' = retval
                 /\ pc' = "done"
                 /\ UNCHANGED error
  /\ UNCHANGED <<origin, source, scurrent, tokens, ptokens, stack, retval>>

\* the outermost parse_value has returned: parse() and parse_json return it
ParseReturn ==
  /\ pc = "return"
  /\ stack = <<>>
  /\ result' = retval
  /\ pc' = "done"
  /\ UNCHANGED <<origin, source, scurrent, tokens, ptokens, pcurrent, stack, retval,
                 error, readMax>>

Next ==
  \/ ScanChar
  \/ ScanEOF
  \/ ParseValue
  \/ ParseObject
  \/ ParseArray
  \/ ObjectResume
  \/ ArrayResume
  \/ ParseReturn

Spec == Init /\ [][Next]_vars

SpecDocs == InitDocs /\ [][Next]_vars

SpecNear == InitNear /\ [][Next]_vars

SpecTrail == InitTrail /\ [][Next]_vars

SpecBroad == InitBroad /\ [][Next]_vars

----------------------------------------------------------------------------
(* Outcomes of parse_json.  The source raises ValueError for every failure; *)
(* a LexError is one raised by the Scanner, a ParseError one raised by the  *)
(* Parser.                                                                  *)

Returned == pc = "done"

Raised == pc = "raised"

LexError == Raised /\ error.by = "Scanner" /\ error.exc = "ValueError"

ParseError == Raised /\ error.by = "Parser" /\ error.exc = "ValueError"

Terminated == Returned \/ Raised

\* the scan has run to its end and handed its tokens to the Parser
Scanned == pc # "scan_tokens" /\ ~LexError

----------------------------------------------------------------------------
(* The value a document denotes, read off the document itself: an array    *)
(* keeps its elements in order; an object has one entry per distinct key,  *)
(* in the order the keys first occur, holding the value of the key's last  *)
(* occurrence.                                                             *)

RECURSIVE RefValue(_)
RefValue(d) ==
  IF d.k = "arr"
  THEN VArr([i \in 1..Len(d.items) |-> RefValue(d.items[i])])
  ELSE IF d.k = "obj"
  THEN LET ms       == d.members
           firsts   == {i \in 1..Len(ms) : \A j \in 1..(i - 1) : ms[j].key # ms[i].key}
           nth(n)   == CHOOSE i \in firsts : Cardinality({j \in firsts : j < i}) = n - 1
           lastOf(i) == CHOOSE j \in 1..Len(ms) :
                          /\ ms[j].key = ms[i].key
                          /\ \A h \in (j + 1)..Len(ms) : ms[h].key # ms[i].key
       IN  VObj([n \in 1..Cardinality(firsts) |->
                   [key |-> ms[nth(n)].key, val |-> RefValue(ms[lastOf(nth(n))].val)]])
  ELSE d

----------------------------------------------------------------------------
(* C1: every array or object text in which a comma is immediately followed *)
(* by the closing token of its (non-empty) container is rejected:          *)
(* parse_json never returns a value for it.                                *)

\* a document's lexemes with a comma put in front of the closer of a
\* container that has at least one element
TrailingCommaTexts ==
  UNION {LET lx == Lexemes(d)
         IN  {Flatten(SubSeq(lx, 1, i - 1) \o <<<<",">>>> \o SubSeq(lx, i, Len(lx))) :
                i \in {j \in 2..Len(lx) : /\ lx[j] \in {<<"]">>, <<"}">>}
                                          /\ lx[j - 1] \notin {<<"[">>, <<"{">>}}}
         : d \in NearDocs}

C1_TrailingCommaRejected ==
  source \in TrailingCommaTexts => ~Returned

----------------------------------------------------------------------------
(* C2: for every text of a document (compact, or with whitespace around    *)
(* every lexeme) parse_json raises nothing and returns the value the       *)
(* document denotes; {} gives the empty object and [] the empty sequence.  *)

C2_ValidParsesToReference ==
  (origin # NoDoc /\ source \in TextsOf(origin)) =>
    /\ ~Raised
    /\ Returned => result = RefValue(origin)
    /\ (Returned /\ origin = VObj(<<>>)) => result = VObj(<<>>)
    /\ (Returned /\ origin = VArr(<<>>)) => result = VArr(<<>>)

C2_Witness ==
  /\ Returned
  /\ source = Spaced(origin)
  /\ origin.k = "arr"
  /\ Len(origin.items) = 1
  /\ origin.items[1].k = "obj"
  /\ Len(origin.items[1].members) = 1
  /\ result = origin

----------------------------------------------------------------------------
(* C5: a key written more than once in an object is held once in the       *)
(* result, with the value of its last occurrence.                          *)

RECURSIVE LastWriteWins(_, _)
LastWriteWins(d, v) ==
  IF d.k = "arr"
  THEN /\ v.k = "arr"
       /\ Len(v.items) = Len(d.items)
       /\ \A i \in 1..Len(d.items) : LastWriteWins(d.items[i], v.items[i])
  ELSE IF d.k = "obj"
  THEN /\ v.k = "obj"
       /\ \A i \in 1..Len(d.members) :
            LET key  == d.members[i].key
                hits == {n \in 1..Len(v.members) : v.members[n].key = key}
                last == \A h \in (i + 1)..Len(d.members) : d.members[h].key # key
            IN  /\ Cardinality(hits) = 1
                /\ last => \A n \in hits :
                             /\ v.members[n].val = RefValue(d.members[i].val)
                             /\ LastWriteWins(d.members[i].val, v.members[n].val)
  ELSE TRUE

C5_DuplicateKeyLastWins ==
  (origin # NoDoc /\ source \in TextsOf(origin) /\ Returned) =>
    LastWriteWins(origin, result)

C5_Witness ==
  /\ Returned
  /\ origin.k = "obj"
  /\ Len(origin.members) = 2
  /\ origin.members[1].key = origin.members[2].key
  /\ origin.members[1].val # origin.members[2].val
  /\ Len(result.members) = 1
  /\ result.members[1].val = origin.members[2].val
----------------------------------------------------------------------------
(* C6: when the text is a complete document followed by further tokens,    *)
(* parse_json returns the document's value, raises no ParseError, leaves   *)
(* the cursor right after the document's tokens and never reads the        *)
(* tokens that follow.                                                     *)

\* the text goes on after the document, and what follows does not run into
\* the document's last lexeme
FollowedByMore(d, text) ==
  LET n    == Len(Compact(d))
      last == Compact(d)[n]
  IN  /\ Len(text) > n
      /\ SubSeq(text, 1, n) = Compact(d)
      /\ IsDigit(last) => ~(IsDigit(text[n + 1]) \/ text[n + 1] = ".")
      /\ IsAlpha(last) => ~IsAlpha(text[n + 1])

C6_TrailingTokensIgnored ==
  (origin # NoDoc /\ FollowedByMore(origin, source) /\ Scanned) =>
    /\ ~ParseError
    /\ Returned =>
         /\ result = RefValue(origin)
         /\ pcurrent = Len(Lexemes(origin))
         /\ readMax = pcurrent - 1

C6_Witness ==
  /\ Returned
  /\ origin # NoDoc
  /\ FollowedByMore(origin, source)
  /\ origin.k = "obj"
  /\ origin.members # <<>>
  /\ ptokens[pcurrent + 1].type = ","
  /\ result = RefValue(origin)

----------------------------------------------------------------------------
(* C3: the token list the Parser is given ends with its only end-of-input  *)
(* token, and the Parser never reads, or tries to read, a token behind it. *)

C3_NeverReadsPastEOF ==
  /\ error.exc # "IndexError"
  /\ ptokens = <<>> => readMax = -1
  /\ ptokens # <<>> =>
       /\ ptokens[Len(ptokens)].type = "EOF"
       /\ \A i \in 1..(Len(ptokens) - 1) : ptokens[i].type # "EOF"
       /\ readMax <= Len(ptokens) - 1
       /\ pcurrent <= Len(ptokens)

\* the Parser has read the end-of-input token of an unfinished container
C3_Witness ==
  /\ ParseError
  /\ Len(ptokens) >= 3
  /\ ptokens[1].type = "{"
  /\ readMax = Len(ptokens) - 1
  /\ stack # <<>>

----------------------------------------------------------------------------
(* C10: when parse_value has returned an element to parse_array or         *)
(* parse_object, the step that follows raises exactly when the next token  *)
(* is neither a comma nor that container's closer, and then with the       *)
(* container's own "Expected ... at end of ..." message and no value.      *)

Closer(fn) == IF fn = "parse_array" THEN "]" ELSE "}"

CloserMessage(fn) ==
  IF fn = "parse_array" THEN "Expected ']' at end of array"
  ELSE "Expected '}' at end of object"

AfterElement == pc = "return" /\ stack # <<>>

C10_SeparatorOrCloser ==
  /\ [](Raised => (result = NoValue /\ ~(ENABLED Next)))
  /\ [][AfterElement =>
         LET next == ptokens[pcurrent + 1].type
         IN  IF next \in {",", Closer(Top.fn)}
             THEN pc' # "raised" /\ pcurrent' = pcurrent + 1
             ELSE /\ pc' = "raised"
                  /\ error' = [exc |-> "ValueError", by |-> "Parser",
                               msg |-> CloserMessage(Top.fn)]
                  /\ result' = NoValue]_vars

\* an object member was followed by a string with no comma between them
C10_Witness ==
  /\ ParseError
  /\ error.msg = "Expected '}' at end of object"
  /\ stack # <<>>
  /\ Top.fn = "parse_object"
  /\ retval # NoValue
  /\ ptokens[pcurrent + 1].type = "STRING"
----------------------------------------------------------------------------
(* C9: both cursors only move forward and stay within their sequence,      *)
(* every iteration of the scan_tokens loop consumes a character, every     *)
(* iteration of the parse_object and parse_array loops consumes a token,   *)
(* and every step lowers a rank that cannot fall below zero, so parse_json *)
(* ends, and it ends with a value or an exception.                         *)

PcWeight ==
  IF pc = "parse_value" THEN 1
  ELSE IF pc \in {"parse_object", "parse_array", "return"} THEN 2
  ELSE 0

Rank ==
  IF pc = "scan_tokens"
  THEN (Len(source) - scurrent) + 2 * (Len(source) + 1) + 3
  ELSE 2 * (Len(ptokens) - pcurrent) + PcWeight

\* the guard of some action of Next holds
CanStep ==
  \/ pc \in {"scan_tokens", "parse_value"}
  \/ pc \in {"parse_object", "parse_array"} /\ stack # <<>> /\ Top.fn = pc
  \/ pc = "return" /\ (stack = <<>> \/ Top.fn \in {"parse_object", "parse_array"})

C9_ForwardOnlyAndTerminates ==
  /\ [](/\ 0 <= scurrent /\ scurrent <= Len(source)
        /\ 0 <= pcurrent /\ pcurrent <= Len(ptokens)
        /\ Len(ptokens) <= Len(source) + 1
        /\ Rank >= 0
        /\ AfterElement => pcurrent > Top.iter
        /\ Terminated \/ CanStep
        /\ Terminated => ~(ENABLED Next))
  /\ [][/\ scurrent' >= scurrent
        /\ pcurrent' >= pcurrent
        /\ (pc = "scan_tokens" /\ ~is_at_end(source, scurrent)) => scurrent' > scurrent
        /\ Rank' < Rank]_vars

\* both loops have gone round more than once: the nested example
C9_Witness ==
  /\ Returned
  /\ result.k = "obj"
  /\ Len(result.members) = 5
  /\ result.members[4].val.k = "arr"
  /\ Len(result.members[4].val.items) = 3
  /\ Len(source) > Len(ptokens)

----------------------------------------------------------------------------
(* C4: the Parser reads nothing before the scan has reached the end of the *)
(* text; a text with a lexical error ends in that error, the leftmost one, *)
(* with no token handed to the Parser and nothing parsed; a ParseError     *)
(* needs a text with no lexical error.                                     *)

\* where the run of characters of a class that starts at i ends
RunEnd(s, i, InClass(_)) ==
  CHOOSE j \in i..Len(s) :
    /\ \A h \in i..(j - 1) : InClass(s[h + 1])
    /\ j = Len(s) \/ ~InClass(s[j + 1])

NumChar(c) == IsDigit(c) \/ c = "."

Count(text, Is(_)) == Cardinality({i \in 1..Len(text) : Is(text[i])})

IsDot(c) == c = "."

\* a numeral has a digit and at most one decimal point
ValidNumeral(text) == Count(text, IsDigit) >= 1 /\ Count(text, IsDot) <= 1

KeywordTexts ==
  {<<"t", "r", "u", "e">>, <<"f", "a", "l", "s", "e">>, <<"n", "u", "l", "l">>}

\* the lexeme that starts at i: where it ends, or what is wrong with it
RefLexeme(s, i) ==
  LET c == s[i + 1]
  IN  IF c \in WhitespaceChars \cup PunctChars THEN [err |-> "none", end |-> i + 1]
      ELSE IF c = "\""
      THEN IF \E j \in (i + 1)..(Len(s) - 1) : s[j + 1] = "\""
           THEN [err |-> "none",
                 end |-> 1 + CHOOSE j \in (i + 1)..(Len(s) - 1) :
                               /\ s[j + 1] = "\""
                               /\ \A h \in (i + 1)..(j - 1) : s[h + 1] # "\""]
           ELSE [err |-> "Unterminated string", end |-> Len(s)]
      ELSE IF IsDigit(c) \/ c = "-"
      THEN LET e == RunEnd(s, i + 1, NumChar)
           IN  [err |-> IF ValidNumeral(SubSeq(s, i + 1, e)) THEN "none"
                        ELSE "Invalid number",
                end |-> e]
      ELSE IF IsAlpha(c)
      THEN LET e == RunEnd(s, i + 1, IsAlpha)
           IN  [err |-> IF SubSeq(s, i + 1, e) \in KeywordTexts THEN "none"
                        ELSE "Unexpected keyword",
                end |-> e]
      ELSE [err |-> "Unexpected character", end |-> i + 1]

\* the leftmost lexical error of a text, "none" if it has none
RECURSIVE RefLexError(_, _)
RefLexError(s, i) ==
  IF i >= Len(s) THEN "none"
  ELSE LET x == RefLexeme(s, i)
       IN  IF x.err # "none" THEN x.err ELSE RefLexError(s, x.end)

ErrorKind(msg) ==
  IF msg \in {"invalid literal for int()", "could not convert string to float"}
  THEN "Invalid number"
  ELSE msg

ParserStarted ==
  \/ readMax >= 0
  \/ pc \in {"parse_value", "parse_object", "parse_array", "return", "done"}
  \/ Raised /\ error.by = "Parser"

C4_ScanCompletesBeforeParse ==
  /\ ParserStarted =>
       /\ scurrent = Len(source)
       /\ ptokens = tokens
       /\ ptokens[Len(ptokens)].type = "EOF"
       /\ RefLexError(source, 0) = "none"
  /\ LexError =>
       /\ ptokens = <<>> /\ readMax = -1 /\ pcurrent = 0 /\ stack = <<>>
       /\ retval = NoValue /\ result = NoValue
       /\ ErrorKind(error.msg) = RefLexError(source, 0)
  /\ (Terminated /\ RefLexError(source, 0) # "none") => LexError

\* a lexical error after a closing bracket no grammar allows there
C4_Witness ==
  /\ LexError
  /\ error.msg = "Unexpected character"
  /\ tokens # <<>>
  /\ tokens[1].type = "]"

----------------------------------------------------------------------------
(* C7: a step of the scan that starts at a quote either appends one string *)
(* token holding the characters up to the closing quote and moves the      *)
(* cursor past that quote, or, when there is no closing quote, raises      *)
(* "Unterminated string" and hands over no tokens.                         *)

AtChar(C) == pc = "scan_tokens" /\ ~is_at_end(source, scurrent) /\ source[scurrent + 1] \in C

\* the first index from i on that holds a quote for which Closes holds, -1 if none
FirstQuote(s, i, Closes(_, _, _)) ==
  LET qs == {j \in i..(Len(s) - 1) : s[j + 1] = "\"" /\ Closes(s, i, j)}
  IN  IF qs = {} THEN -1 ELSE CHOOSE j \in qs : \A h \in qs : j <= h

AnyQuote(s, i, j) == TRUE

\* the backslashes right before index j, not counting any before index i
BackslashesBefore(s, i, j) ==
  Cardinality({h \in i..(j - 1) : \A g \in h..(j - 1) : s[g + 1] = "\\"})

\* a quote is escaped when an odd number of backslashes comes right before it
UnescapedQuote(s, i, j) == BackslashesBefore(s, i, j) % 2 = 0

StringStep(Closes(_, _, _)) ==
  AtChar({"\""}) =>
    LET start == scurrent + 1
        close == FirstQuote(source, start, Closes)
    IN  IF close >= 0
        THEN /\ tokens' = Append(tokens, Token("STRING", VStr(SubSeq(source, start + 1, close))))
             /\ scurrent' = close + 1
             /\ pc' = "scan_tokens"
        ELSE /\ pc' = "raised"
             /\ error' = [exc |-> "ValueError", by |-> "Scanner",
                          msg |-> "Unterminated string"]
             /\ ptokens' = <<>>
             /\ result' = NoValue

\* C7 as written: the string runs to the next unescaped quote
C7_StringToNextUnescapedQuote == [][StringStep(UnescapedQuote)]_vars

\* C7 as amended: the string runs to the next quote, escaped or not
C7_StringToNextQuote == [][StringStep(AnyQuote)]_vars

\* a string token that ends at a quote with a backslash before it
C7_Witness ==
  /\ tokens # <<>>
  /\ tokens[Len(tokens)] = Token("STRING", VStr(<<"a", "\\">>))
  /\ scurrent = 4
  /\ source[4] = "\""

----------------------------------------------------------------------------
(* C8: a step of the scan that starts at a digit or '-' captures that      *)
(* character and the longest run of digits and '.' after it; if the        *)
(* captured text is a numeral it appends one number token, a float when    *)
(* the text has a '.', an integer otherwise, with the value the text       *)
(* denotes; if not, the scan raises and emits no token.                    *)

Pow10(k) == IF k = 0 THEN 1 ELSE IF k = 1 THEN 10 ELSE IF k = 2 THEN 100
            ELSE IF k = 3 THEN 1000 ELSE IF k = 4 THEN 10000 ELSE 100000

\* the decimal digits of n, padded to k places
Padded(n, k) == [i \in 1..k |-> DigitChars[((n \div Pow10(k - i)) % 10) + 1]]

\* the number a string of at most five digits denotes
RefNat(ds) == CHOOSE n \in 0..(Pow10(Len(ds)) - 1) : Padded(n, Len(ds)) = ds

RefNumber(text) ==
  LET neg  == text[1] = "-"
      body == IF neg THEN Tail(text) ELSE text
      ds   == SelectSeq(body, IsDigit)
      frac == Len(body) - (CHOOSE i \in 1..Len(body) : body[i] = ".")
      n    == IF neg THEN -RefNat(ds) ELSE RefNat(ds)
  IN  IF Count(text, IsDot) = 0 THEN VInt(n) ELSE Normal(n, frac)

C8_NumberScanning ==
  [][AtChar({"-"} \cup {DigitChars[i] : i \in 1..Len(DigitChars)}) =>
       LET end  == RunEnd(source, scurrent + 1, NumChar)
           text == SubSeq(source, scurrent + 1, end)
       IN  IF ValidNumeral(text)
           THEN /\ tokens' = Append(tokens, Token("NUMBER", RefNumber(text)))
                /\ tokens'[Len(tokens')].value.k =
                     (IF Count(text, IsDot) = 1 THEN "float" ELSE "int")
                /\ scurrent' = end
                /\ pc' = "scan_tokens"
           ELSE /\ pc' = "raised"
                /\ error'.by = "Scanner"
                /\ tokens' = tokens
                /\ ptokens' = <<>>
                /\ result' = NoValue]_vars

\* 3.14 has been scanned as one floating-point token
C8_Witness ==
  /\ source = <<"3", ".", "1", "4">>
  /\ tokens = <<Token("NUMBER", VFloat(314, 2))>>
  /\ scurrent = 4

====
